---- MODULE Spec2Model ----
(***************************************************************************)
(* A model of the IPMI plugin of src/main.py: the server Registry built    *)
(* by IpmiPlugin.__init__, the seven command handlers, the sensor-group    *)
(* fan-out, the external-tool runner (run_ipmitool_cli_streaming) and the  *)
(* library runner (run_pyghmi_command).                                    *)
(*                                                                         *)
(* Every handler is an async generator.  It is cut at its suspension       *)
(* points: each `yield` and each `await` of a child process, of the        *)
(* gathered tasks or of the executor ends one atomic step.                 *)
(***************************************************************************)
EXTENDS Integers, Sequences, FiniteSets, TLC

VARIABLES
    ctor,            \* __init__: entries of the list it has gone through, and
                     \* whether a fault has left it
    config,          \* the 'servers' list handed to __init__
    servers,         \* self.servers
    sensor_groups,   \* self.sensor_groups
    ipmitool_path,   \* self.ipmitool_path
    toolOnDisk,      \* does the executable exist on disk right now
    stuck,           \* the underlying calls that never return (environment)
    req,             \* per dispatch: the parsed command handed to the handler
    pc,              \* per dispatch: position of the handler coroutine
    replies,         \* per dispatch: the texts yielded so far, in order
    tasks,           \* per dispatch: the runner invocations it made
    doneOrder,       \* per dispatch: task indices in order of completion
    libcall,         \* per dispatch: state of the pyghmi call
    loopThread       \* dispatch whose blocking call occupies the event loop, or 0

vars == <<ctor, config, servers, sensor_groups, ipmitool_path, toolOnDisk, stuck,
          req, pc, replies, tasks, doneOrder, libcall, loopThread>>

----------------------------------------------------------------------------
(* Bounds *)

MaxServers == 2      \* longest configuration list
NumDispatch == 2     \* dispatches in flight in the concurrent specification

DispatchIds == 1..NumDispatch

----------------------------------------------------------------------------
(* JSON values as json.loads returns them.  Scalars keep their Python type *)
(* in the tag, so that a number is never mistaken for a string.            *)

JStr(s) == [t |-> "str", v |-> s]
JNum(n) == [t |-> "num", v |-> n]
JList(q) == [t |-> "list", v |-> q]
JObj(f) == [t |-> "obj", v |-> f]
Absent == [t |-> "absent", v |-> ""]

isinstance_str(x) == x.t = "str"
isinstance_dict(x) == x.t = "obj"

\* Python truth value of a JSON value (`if not sensor_list`).
\* Variant: every value counts as true.
Truthy_always(x) == TRUE

Truthy(x) ==
    CASE x.t = "absent" -> FALSE
      [] x.t = "str" -> x.v # ""
      [] x.t = "num" -> x.v # "0"
      [] x.t = "list" -> Len(x.v) > 0
      [] x.t = "obj" -> DOMAIN x.v # {}

None == "None"

RECURSIVE SeqToSet(_)
SeqToSet(q) == IF q = <<>> THEN {} ELSE {Head(q)} \cup SeqToSet(Tail(q))

RECURSIVE SelectFirst(_, _)
\* next((s for s in q if s["name"] == name), None): index of the first match, 0 if none
SelectFirst(q, name) ==
    IF q = <<>> THEN 0
    ELSE IF Head(q).name = name THEN 1
    ELSE LET r == SelectFirst(Tail(q), name) IN IF r = 0 THEN 0 ELSE r + 1

----------------------------------------------------------------------------
(* Configuration: a list of entries.  An entry is what the host hands over *)
(* for one server: kind says how far isinstance/json.loads get with it,    *)
(* obj is the decoded object (a missing key is Absent).                    *)

Keys == {"name", "host", "username", "password", "sensor_groups"}
RequiredKeys == {"name", "host", "username", "password"}

NoObject == [k \in Keys |-> Absent]
EmptyDict == [k \in {} |-> Absent]

Server(name, host, groups) ==
    [k \in Keys |->
        CASE k = "name" -> name
          [] k = "host" -> host
          [] k = "username" -> JStr("admin")
          [] k = "password" -> JStr("pw")
          [] k = "sensor_groups" -> groups]

GroupsA ==
    JObj([g \in {"temps", "solo", "twice", "empty", "mixed", "scalar"} |->
        CASE g = "temps" -> JList(<<JStr("CPU1_Temp"), JStr("CPU2_Temp")>>)
          [] g = "solo" -> JList(<<JStr("FAN1")>>)
          [] g = "twice" -> JList(<<JStr("FAN1"), JStr("FAN1")>>)
          [] g = "empty" -> JList(<<>>)
          [] g = "mixed" -> JList(<<JStr("CPU1_Temp"), JNum("2")>>)
          [] g = "scalar" -> JNum("5")])

EntryA == [kind |-> "obj", obj |-> Server(JStr("a"), JStr("10.0.0.1"), GroupsA)]
EntryB == [kind |-> "obj", obj |-> Server(JStr("b"), JNum("167772162"), Absent)]
EntryNoHost == [kind |-> "obj", obj |-> Server(JStr("c"), Absent, Absent)]
EntryBadJson == [kind |-> "badjson", obj |-> NoObject]

Entries == {EntryA, EntryB, EntryNoHost, EntryBadJson}

RECURSIVE SeqsUpTo(_, _)
SeqsUpTo(S, n) ==
    IF n = 0 THEN {<<>>}
    ELSE LET shorter == SeqsUpTo(S, n - 1)
         IN shorter \cup {Append(q, e) : q \in shorter, e \in S}

Configs == SeqsUpTo(Entries, MaxServers)

\* A dict key must be hashable: a list or a dict is not (line 44).
Hashable(x) == x.t \notin {"list", "obj"}

\* One pass of the loop body of __init__ over entry e, from state st.  Only
\* json.JSONDecodeError is caught: the TypeError of line 44 leaves __init__.
LoadEntry(st, e) ==
    IF st.raised \/ e.kind # "obj" \/ \E k \in RequiredKeys : e.obj[k] = Absent
    THEN st
    ELSE IF e.obj["sensor_groups"] # Absent /\ isinstance_dict(e.obj["sensor_groups"])
    THEN IF ~Hashable(e.obj["name"])
         THEN [st EXCEPT !.raised = TRUE]
         ELSE [servers |-> Append(st.servers, e.obj),
               sensor_groups |->
                   [n \in DOMAIN st.sensor_groups \cup {e.obj["name"]} |->
                        IF n = e.obj["name"] THEN e.obj["sensor_groups"].v
                        ELSE st.sensor_groups[n]],
               raised |-> FALSE]
    ELSE [st EXCEPT !.servers = Append(st.servers, e.obj)]

RECURSIVE LoadFrom(_, _)
LoadFrom(st, cfg) ==
    IF cfg = <<>> THEN st ELSE LoadFrom(LoadEntry(st, Head(cfg)), Tail(cfg))

\* __init__: the Registry built from the configuration list.
LoadServers(cfg) ==
    LoadFrom([servers |-> <<>>, sensor_groups |-> EmptyDict, raised |-> FALSE], cfg)

\* _initialize_ipmitool: the path, or None.
Systems == {"Windows", "Linux", "Darwin"}
initialize_ipmitool(system, exists, chmodOk) ==
    IF system \notin {"Windows", "Linux"} THEN None
    ELSE IF ~exists THEN None
    ELSE IF system = "Linux" /\ ~chmodOk THEN None
    ELSE IF system = "Windows" THEN "IPMI_CLI/win/ipmitool.exe"
    ELSE "IPMI_CLI/linux/ipmitool"

\* self._find_target_server(target_name): the record, or None
Found(target_name) == SelectFirst(servers, JStr(target_name)) # 0
find_target_server(target_name) == servers[SelectFirst(servers, JStr(target_name))]

\* self.sensor_groups.get(name, {})
GroupsOf(name) == IF name \in DOMAIN sensor_groups THEN sensor_groups[name] ELSE EmptyDict

----------------------------------------------------------------------------
(* Texts.  A text is the f-string that produced it (fmt) with the values   *)
(* interpolated into it: args (strings), code (the exit code, if the       *)
(* f-string has one), body (the decoded output, as characters) and blocks  *)
(* (the texts joined into it).                                             *)

Text(fmt, args) == [fmt |-> fmt, args |-> args, code |-> <<>>, body |-> <<>>, blocks |-> <<>>]
NoText == Text("", <<>>)

RECURSIVE Join(_, _)
\* sep.join(q) for a list of strings
Join(q, sep) ==
    IF q = <<>> THEN ""
    ELSE IF Len(q) = 1 THEN q[1]
    ELSE q[1] \o sep \o Join(Tail(q), sep)

\* Bytes a child process writes: one string per byte; InvalidByte is a byte
\* that is not valid UTF-8.
InvalidByte == "\\xff"
Whitespace == {" ", "\n", "\t", "\r"}

RECURSIVE decode(_)
\* bytes.decode('utf-8', errors='ignore'): undecodable bytes are dropped
decode(b) ==
    IF b = <<>> THEN <<>>
    ELSE IF Head(b) = InvalidByte THEN decode(Tail(b))
    ELSE <<Head(b)>> \o decode(Tail(b))

RECURSIVE lstrip(_)
lstrip(q) == IF q # <<>> /\ Head(q) \in Whitespace THEN lstrip(Tail(q)) ELSE q

RECURSIVE rstrip(_)
rstrip(q) ==
    IF q # <<>> /\ q[Len(q)] \in Whitespace THEN rstrip(SubSeq(q, 1, Len(q) - 1)) ELSE q

\* str.strip()
strip(q) == rstrip(lstrip(q))

\* str.lower() on the subcommand tokens of the model
lower(s) ==
    CASE s = "LIST" -> "list"
      [] s = "Status" -> "status"
      [] OTHER -> s

\* What communicate() can come back with: exc is the fault it raised ("" for
\* none), else the child ran to completion with returncode, stdout, stderr.
ProcResults ==
    { [exc |-> "", returncode |-> 0, stdout |-> <<" ", "D", "o", InvalidByte, "n", "e", "\n">>,
       stderr |-> <<"w", "\n">>],
      [exc |-> "", returncode |-> 1, stdout |-> <<"p">>,
       stderr |-> <<"b", "a", "d", " ", "c", "r", "e", "d", "s", "\n">>],
      [exc |-> "OSError", returncode |-> 0, stdout |-> <<>>, stderr |-> <<>>] }

\* Lines 238-243: the text returned for a child process that ran to completion.
FormatOutcome_stdout_always(command_parts, r) ==
    IF r.returncode = 0
    THEN [Text("tool_success", <<Join(command_parts, " ")>>)
             EXCEPT !.body = strip(decode(r.stdout))]
    ELSE [Text("tool_failed", <<Join(command_parts, " ")>>)
             EXCEPT !.code = <<r.returncode>>, !.body = strip(decode(r.stdout))]
FormatOutcome(command_parts, r) ==
    IF r.returncode = 0
    THEN [Text("tool_success", <<Join(command_parts, " ")>>)
             EXCEPT !.body = strip(decode(r.stdout))]
    ELSE [Text("tool_failed", <<Join(command_parts, " ")>>)
             EXCEPT !.code = <<r.returncode>>, !.body = strip(decode(r.stderr))]

----------------------------------------------------------------------------------------------------------------------------------------
(* Runner invocations.  st: scheduled (called, not yet run), running (the  *)
(* child process exists and communicate() is awaited), returned, raised.   *)
(* attempted: create_subprocess_exec was called; spawned: it made a child. *)
(* missing: the executable was unresolved or not on disk when the runner   *)
(* ran; exit: what communicate() came back with.                           *)

NoExit == [exc |-> "none", returncode |-> 0, stdout |-> <<>>, stderr |-> <<>>]

NewTask(command_parts) ==
    [parts |-> command_parts, st |-> "scheduled", result |-> NoText,
     attempted |-> FALSE, spawns |-> 0, spawned |-> FALSE, missing |-> FALSE,
     exit |-> NoExit]

Strs(q) == [i \in DOMAIN q |-> q[i].v]
AllStr(q) == \A i \in DOMAIN q : isinstance_str(q[i])

\* Outcomes of create_subprocess_exec the operating system can produce.
SpawnOutcomes == IF toolOnDisk THEN {"ok", "OSError"} ELSE {"FileNotFoundError"}

\* Line 225: ' '.join(full_cmd_list) raises TypeError unless every item is a str.
JoinRaises(server_info, command_parts) ==
    ~AllStr(<<server_info["host"], server_info["username"], server_info["password"]>>
            \o command_parts)

\* Lines 213-233 and 244-249: the runner up to the await of communicate().
RunnerStart_generic_fault(task, server_info, os) ==
    LET t == [task EXCEPT !.missing = (ipmitool_path = None \/ ~toolOnDisk)]
    IN IF ipmitool_path = None
       THEN [t EXCEPT !.st = "returned", !.result = Text("tool_unresolved", <<>>)]
       ELSE IF JoinRaises(server_info, t.parts)
       THEN [t EXCEPT !.st = "raised", !.result = Text("TypeError", <<>>)]
       ELSE IF os = "ok"
       THEN [t EXCEPT !.st = "running", !.attempted = TRUE, !.spawns = @ + 1, !.spawned = TRUE]
       ELSE [t EXCEPT !.st = "returned", !.attempted = TRUE, !.spawns = @ + 1,
                      !.result = Text("tool_error", <<os>>)]
RunnerStart(task, server_info, os) ==
    LET t == [task EXCEPT !.missing = (ipmitool_path = None \/ ~toolOnDisk)]
    IN IF ipmitool_path = None
       THEN [t EXCEPT !.st = "returned", !.result = Text("tool_unresolved", <<>>)]
       ELSE IF JoinRaises(server_info, t.parts)
       THEN [t EXCEPT !.st = "raised", !.result = Text("TypeError", <<>>)]
       ELSE CASE os = "ok" ->
                   [t EXCEPT !.st = "running", !.attempted = TRUE, !.spawns = @ + 1, !.spawned = TRUE]
              [] os = "FileNotFoundError" ->
                   [t EXCEPT !.st = "returned", !.attempted = TRUE, !.spawns = @ + 1,
                             !.result = Text("tool_not_found", <<>>)]
              [] OTHER ->
                   [t EXCEPT !.st = "returned", !.attempted = TRUE, !.spawns = @ + 1,
                             !.result = Text("tool_error", <<os>>)]

\* Variant: an invocation whose child failed is started again.
RunnerFinish_retry(task, r) ==
    IF r.exc # "" \/ r.returncode # 0
    THEN [task EXCEPT !.st = "scheduled", !.exit = r]
    ELSE [task EXCEPT !.st = "returned", !.exit = r,
                      !.result = FormatOutcome(Strs(task.parts), r)]

\* Lines 234-249: communicate() returns r, or raises.
RunnerFinish(task, r) ==
    IF r.exc # ""
    THEN [task EXCEPT !.st = "returned", !.exit = r, !.result = Text("tool_error", <<r.exc>>)]
    ELSE [task EXCEPT !.st = "returned", !.exit = r,
                      !.result = FormatOutcome(Strs(task.parts), r)]

----------------
(* Requests: the (operation, target, detail) the host parsed.  detail is   *)
(* sensor_name, group_name or subcommand; "" where the handler has none.   *)

Targets == {"a", "b", "zz"}
Details(op) ==
    CASE op = "sensor" -> {"", "CPU1_Temp"}
      [] op = "group" -> {"", "temps", "solo", "twice", "empty", "mixed", "scalar", "nogrp"}
      [] op = "sel" -> {"list", "LIST", "clear"}
      [] op = "chassis" -> {"status", "Status", "power"}
      [] OTHER -> {""}
Ops == {"power", "sensors", "sensor", "group", "fru", "sel", "chassis"}
Requests ==
    UNION {{[op |-> o, target_name |-> t, detail |-> x] : t \in Targets, x \in Details(o)}
           : o \in Ops}
NoRequest == [op |-> "", target_name |-> "", detail |-> ""]

\* Longest sensor list of the configured groups.
MaxTasks == 2
\* Calls that may hang: <<d, 0>> is the library call of d, <<d, i>> its i-th child.
StuckChoices(D) == {{}} \cup {{<<d, i>>} : d \in D, i \in 0..MaxTasks}

----------------------------------------------------------------------------
(* The handlers *)

\* The f-string of lines 117, 127, 137, 147, 164, 178, 192.
NotFound_anonymous(target_name) == Text("not_found", <<>>)
NotFound(target_name) == Text("not_found", <<target_name>>)

\* A handler yields text and suspends at position next, having called the
\* runner with each of the argument tails in calls.
Yield_nothing(d, text, next, calls) ==
    /\ pc' = [pc EXCEPT ![d] = next]
    /\ tasks' = [tasks EXCEPT ![d] = [i \in DOMAIN calls |-> NewTask(calls[i])]]
    /\ UNCHANGED <<ctor, config, servers, sensor_groups, ipmitool_path, toolOnDisk, stuck,
                   req, replies, doneOrder, libcall, loopThread>>
Yield(d, text, next, calls) ==
    /\ replies' = [replies EXCEPT ![d] = Append(@, text)]
    /\ pc' = [pc EXCEPT ![d] = next]
    /\ tasks' = [tasks EXCEPT ![d] = [i \in DOMAIN calls |-> NewTask(calls[i])]]
    /\ UNCHANGED <<ctor, config, servers, sensor_groups, ipmitool_path, toolOnDisk, stuck,
                   req, doneOrder, libcall, loopThread>>

\* The event loop runs the handler of dispatch d, which is at position at.
Runs(d, at) == loopThread = 0 /\ pc[d] = at

\* Lines 113-119
ipmi_power(d) ==
    /\ Runs(d, "new") /\ req[d].op = "power"
    /\ IF ~Found(req[d].target_name)
       THEN Yield(d, NotFound(req[d].target_name), "done", <<>>)
       ELSE Yield(d, Text("progress_power", <<req[d].target_name>>), "power_call", <<>>)

\* Lines 123-130
ipmi_sensors(d) ==
    /\ Runs(d, "new") /\ req[d].op = "sensors"
    /\ IF ~Found(req[d].target_name)
       THEN Yield(d, NotFound(req[d].target_name), "done", <<>>)
       ELSE Yield(d, Text("progress_sensors", <<req[d].target_name>>), "await_runner",
                  << <<JStr("sensor"), JStr("list")>> >>)

\* Lines 133-140
ipmi_sensor(d) ==
    /\ Runs(d, "new") /\ req[d].op = "sensor"
    /\ IF ~Found(req[d].target_name)
       THEN Yield(d, NotFound(req[d].target_name), "done", <<>>)
       ELSE Yield(d, Text("progress_sensor", <<req[d].target_name, req[d].detail>>),
                  "await_runner",
                  << <<JStr("sensor"), JStr("get"), JStr(req[d].detail)>> >>)

RECURSIVE SetToSeq(_)
SetToSeq(S) == IF S = {} THEN <<>> ELSE LET x == CHOOSE x \in S : TRUE
                                        IN <<x>> \o SetToSeq(S \ {x})

\* Lines 143-156
ipmi_group(d) ==
    /\ Runs(d, "new") /\ req[d].op = "group"
    /\ LET groups == GroupsOf(JStr(req[d].target_name))
       IN IF ~Found(req[d].target_name)
          THEN Yield(d, NotFound(req[d].target_name), "done", <<>>)
          ELSE IF req[d].detail = "" \/ req[d].detail \notin DOMAIN groups
          THEN Yield(d, Text("group_usage",
                             IF DOMAIN groups # {} THEN SetToSeq(DOMAIN groups) ELSE <<"none">>),
                     "done", <<>>)
          ELSE Yield(d, Text("progress_group", <<req[d].target_name, req[d].detail>>),
                     "group_call", <<>>)

\* Lines 160-167
ipmi_fru(d) ==
    /\ Runs(d, "new") /\ req[d].op = "fru"
    /\ IF ~Found(req[d].target_name)
       THEN Yield(d, NotFound(req[d].target_name), "done", <<>>)
       ELSE Yield(d, Text("progress_fru", <<req[d].target_name>>), "await_runner",
                  << <<JStr("fru")>> >>)

\* Variant: the target is looked up before the subcommand is checked.
ipmi_sel_target_first(d) ==
    /\ Runs(d, "new") /\ req[d].op = "sel"
    /\ IF ~Found(req[d].target_name)
       THEN Yield(d, NotFound(req[d].target_name), "done", <<>>)
       ELSE IF lower(req[d].detail) # "list"
       THEN Yield(d, Text("sel_usage", <<req[d].detail>>), "done", <<>>)
       ELSE Yield(d, Text("progress_sel", <<req[d].target_name>>), "await_runner",
                  << <<JStr("sel"), JStr("list")>> >>)

\* Lines 170-181
ipmi_sel(d) ==
    /\ Runs(d, "new") /\ req[d].op = "sel"
    /\ IF lower(req[d].detail) # "list"
       THEN Yield(d, Text("sel_usage", <<req[d].detail>>), "done", <<>>)
       ELSE IF ~Found(req[d].target_name)
       THEN Yield(d, NotFound(req[d].target_name), "done", <<>>)
       ELSE Yield(d, Text("progress_sel", <<req[d].target_name>>), "await_runner",
                  << <<JStr("sel"), JStr("list")>> >>)

\* Lines 184-195
ipmi_chassis_sel_tail(d) ==
    /\ Runs(d, "new") /\ req[d].op = "chassis"
    /\ IF lower(req[d].detail) # "status"
       THEN Yield(d, Text("chassis_usage", <<req[d].detail>>), "done", <<>>)
       ELSE IF ~Found(req[d].target_name)
       THEN Yield(d, NotFound(req[d].target_name), "done", <<>>)
       ELSE Yield(d, Text("progress_chassis", <<req[d].target_name>>), "await_runner",
                  << <<JStr("sel"), JStr("list")>> >>)
ipmi_chassis(d) ==
    /\ Runs(d, "new") /\ req[d].op = "chassis"
    /\ IF lower(req[d].detail) # "status"
       THEN Yield(d, Text("chassis_usage", <<req[d].detail>>), "done", <<>>)
       ELSE IF ~Found(req[d].target_name)
       THEN Yield(d, NotFound(req[d].target_name), "done", <<>>)
       ELSE Yield(d, Text("progress_chassis", <<req[d].target_name>>), "await_runner",
                  << <<JStr("chassis"), JStr("status")>> >>)

----------------------------------------------------------------------------
(* The runners and the fan-out *)

target_server(d) == find_target_server(req[d].target_name)

\* loop.run_in_executor(None, ipmi_sync_call): the blocking call runs on a
\* worker of the default pool, so no dispatch occupies the event loop (0).
run_on_event_loop(d) == d
run_in_executor(d) == 0

\* Lines 120, 251-268: the handler calls the library runner and awaits the worker.
run_pyghmi_command(d) ==
    /\ Runs(d, "power_call")
    /\ pc' = [pc EXCEPT ![d] = "await_lib"]
    /\ libcall' = [libcall EXCEPT ![d] = "running"]
    /\ loopThread' = run_in_executor(d)
    /\ UNCHANGED <<ctor, config, servers, sensor_groups, ipmitool_path, toolOnDisk, stuck,
                   req, replies, tasks, doneOrder>>

\* What the BMC answers to get_power: a power state, a response without the
\* 'powerstate' field, or a fault of the library.
PowerOutcomes == {"on", "nofield", "IpmiException"}

\* Lines 254-265: the text ipmi_sync_call returns.
SyncCallText(server_info, outcome) ==
    CASE outcome = "IpmiException" -> Text("pyghmi_failed", <<outcome>>)
      [] outcome = "nofield" -> Text("power_state", <<server_info["name"].v, "unknown">>)
      [] OTHER -> Text("power_state", <<server_info["name"].v, outcome>>)

\* Lines 254-270 and 121: the blocking call returns, the handler yields its text.
ipmi_sync_call(d) ==
    /\ loopThread \in {0, d} /\ pc[d] = "await_lib"
    /\ <<d, 0>> \notin stuck
    /\ \E outcome \in PowerOutcomes :
          replies' = [replies EXCEPT ![d] = Append(@, SyncCallText(target_server(d), outcome))]
    /\ pc' = [pc EXCEPT ![d] = "done"]
    /\ libcall' = [libcall EXCEPT ![d] = "returned"]
    /\ loopThread' = 0
    /\ UNCHANGED <<ctor, config, servers, sensor_groups, ipmitool_path, toolOnDisk, stuck,
                   req, tasks, doneOrder>>

\* Variant: the fan-out takes the group table out of the Registry
\* (sensor_groups.pop(server_name, {}) for .get).
handle_sensor_group_pop(d) ==
    /\ Runs(d, "group_call")
    /\ LET server_name == target_server(d)["name"]
           groups == GroupsOf(server_name)
           sensor_list == IF req[d].detail \in DOMAIN groups
                          THEN groups[req[d].detail] ELSE Absent
       IN /\ sensor_groups' = [n \in DOMAIN sensor_groups \ {server_name} |-> sensor_groups[n]]
          /\ IF ~Truthy(sensor_list)
             THEN /\ replies' = [replies EXCEPT ![d] = Append(@,
                         Text("group_not_found", <<server_name.v, req[d].detail>>))]
                  /\ pc' = [pc EXCEPT ![d] = "done"]
                  /\ UNCHANGED tasks
             ELSE IF sensor_list.t # "list"
             THEN /\ pc' = [pc EXCEPT ![d] = "raised"]
                  /\ UNCHANGED <<replies, tasks>>
             ELSE /\ pc' = [pc EXCEPT ![d] = "await_gather"]
                  /\ tasks' = [tasks EXCEPT ![d] =
                                 [i \in DOMAIN sensor_list.v |->
                                     NewTask(<<JStr("sensor"), JStr("get"), sensor_list.v[i]>>)]]
                  /\ UNCHANGED replies
    /\ UNCHANGED <<ctor, config, servers, ipmitool_path, toolOnDisk, stuck, req,
                   doneOrder, libcall, loopThread>>

\* Lines 157, 200-208: the fan-out up to the await of gather.
handle_sensor_group(d) ==
    /\ Runs(d, "group_call")
    /\ LET server_name == target_server(d)["name"]
           groups == GroupsOf(server_name)
           sensor_list == IF req[d].detail \in DOMAIN groups
                          THEN groups[req[d].detail] ELSE Absent
       IN IF ~Truthy(sensor_list)
          THEN Yield(d, Text("group_not_found", <<server_name.v, req[d].detail>>), "done", <<>>)
          ELSE IF sensor_list.t # "list"
          THEN /\ pc' = [pc EXCEPT ![d] = "raised"]
               /\ UNCHANGED <<ctor, config, servers, sensor_groups, ipmitool_path, toolOnDisk,
                              stuck, req, replies, tasks, doneOrder, libcall, loopThread>>
          ELSE /\ pc' = [pc EXCEPT ![d] = "await_gather"]
               /\ tasks' = [tasks EXCEPT ![d] =
                              [i \in DOMAIN sensor_list.v |->
                                  NewTask(<<JStr("sensor"), JStr("get"), sensor_list.v[i]>>)]]
               /\ UNCHANGED <<ctor, config, servers, sensor_groups, ipmitool_path, toolOnDisk,
                              stuck, req, replies, doneOrder, libcall, loopThread>>

Finished(task) == task.st \in {"returned", "raised"}

\* Lines 131, 141, 168, 182, 196: a handler that awaits the runner directly
\* goes on in the same step when the runner is back with task t: it yields
\* the runner's text, or the runner's fault leaves the handler.  A task of
\* gather only records its outcome.
Return(d, i, t) ==
    /\ tasks' = [tasks EXCEPT ![d][i] = t]
    /\ doneOrder' = IF Finished(t) THEN [doneOrder EXCEPT ![d] = Append(@, i)] ELSE doneOrder
    /\ pc' = IF pc[d] = "await_runner" /\ Finished(t)
             THEN [pc EXCEPT ![d] = IF t.st = "raised" THEN "raised" ELSE "done"]
             ELSE pc
    /\ replies' = IF pc[d] = "await_runner" /\ t.st = "returned"
                  THEN [replies EXCEPT ![d] = Append(@, t.result)]
                  ELSE replies

\* Lines 212-233: invocation i of dispatch d runs up to its await of communicate().
run_ipmitool_cli_streaming(d, i) ==
    /\ loopThread = 0
    /\ i \in DOMAIN tasks[d] /\ tasks[d][i].st = "scheduled"
    /\ \E os \in SpawnOutcomes : Return(d, i, RunnerStart(tasks[d][i], target_server(d), os))
    /\ UNCHANGED <<ctor, config, servers, sensor_groups, ipmitool_path, toolOnDisk, stuck,
                   req, libcall, loopThread>>

\* Lines 234-249: the child process of invocation i ends and communicate() returns.
communicate(d, i) ==
    /\ loopThread = 0
    /\ i \in DOMAIN tasks[d] /\ tasks[d][i].st = "running"
    /\ <<d, i>> \notin stuck
    /\ \E r \in ProcResults : Return(d, i, RunnerFinish(tasks[d][i], r))
    /\ UNCHANGED <<ctor, config, servers, sensor_groups, ipmitool_path, toolOnDisk, stuck,
                   req, libcall, loopThread>>

\* asyncio.gather(*tasks): the results in the order of the awaitables given.
results_in_completion_order(ts, order) == [k \in DOMAIN order |-> ts[order[k]].result]
gather_results(ts, order) == [i \in DOMAIN ts |-> ts[i].result]

AnyRaised(d) == \E i \in DOMAIN tasks[d] : tasks[d][i].st = "raised"
\* Variant: gather is back as soon as one task has returned.
FirstReturned(d) == \E i \in DOMAIN tasks[d] : tasks[d][i].st = "returned"
AllReturned(d) == \A i \in DOMAIN tasks[d] : tasks[d][i].st = "returned"

\* Lines 209-210 and 158: gather is back.  The first fault of a task leaves
\* gather, the fan-out and the handler at once; otherwise, when every task
\* has returned, the handler yields the joined text.
gather(d) ==
    /\ Runs(d, "await_gather")
    /\ IF AnyRaised(d)
       THEN /\ pc' = [pc EXCEPT ![d] = "raised"]
            /\ UNCHANGED replies
       ELSE /\ AllReturned(d)
            /\ pc' = [pc EXCEPT ![d] = "done"]
            /\ replies' = [replies EXCEPT ![d] = Append(@,
                  [Text("group_result", <<req[d].detail>>)
                      EXCEPT !.blocks = gather_results(tasks[d], doneOrder[d])])]
    /\ UNCHANGED <<ctor, config, servers, sensor_groups, ipmitool_path, toolOnDisk, stuck,
                   req, tasks, doneOrder, libcall, loopThread>>

\* The environment: the executable disappears from the disk.
ToolRemoved ==
    /\ toolOnDisk
    /\ toolOnDisk' = FALSE
    /\ UNCHANGED <<ctor, config, servers, sensor_groups, ipmitool_path, stuck,
                   req, pc, replies, tasks, doneOrder, libcall, loopThread>>

----------------------------------------------------------------------------
(* Specifications *)

\* The state after construction, before any handler has run.
Constructed(cfg) ==
    /\ config = cfg
    /\ ~LoadServers(cfg).raised
    /\ ctor = [pos |-> Len(cfg), raised |-> FALSE]
    /\ servers = LoadServers(cfg).servers
    /\ sensor_groups = LoadServers(cfg).sensor_groups
    /\ \E system \in Systems, exists \in BOOLEAN, chmodOk \in BOOLEAN :
          /\ ipmitool_path = initialize_ipmitool(system, exists, chmodOk)
          /\ toolOnDisk = exists
    /\ replies = [d \in DispatchIds |-> <<>>]
    /\ tasks = [d \in DispatchIds |-> <<>>]
    /\ doneOrder = [d \in DispatchIds |-> <<>>]
    /\ libcall = [d \in DispatchIds |-> "none"]
    /\ loopThread = 0

\* One dispatch, of any request, against any configuration.
Init ==
    /\ \E cfg \in Configs : Constructed(cfg)
    /\ stuck \in StuckChoices({1})
    /\ \E r \in Requests : req = [d \in DispatchIds |-> IF d = 1 THEN r ELSE NoRequest]
    /\ pc = [d \in DispatchIds |-> IF d = 1 THEN "new" ELSE "unused"]

Next ==
    \/ \E d \in DispatchIds : ipmi_power(d)
    \/ \E d \in DispatchIds : ipmi_sensors(d)
    \/ \E d \in DispatchIds : ipmi_sensor(d)
    \/ \E d \in DispatchIds : ipmi_group(d)
    \/ \E d \in DispatchIds : ipmi_fru(d)
    \/ \E d \in DispatchIds : ipmi_sel(d)
    \/ \E d \in DispatchIds : ipmi_chassis(d)
    \/ \E d \in DispatchIds : run_pyghmi_command(d)
    \/ \E d \in DispatchIds : ipmi_sync_call(d)
    \/ \E d \in DispatchIds : handle_sensor_group(d)
    \/ \E d \in DispatchIds, i \in 1..MaxTasks : run_ipmitool_cli_streaming(d, i)
    \/ \E d \in DispatchIds, i \in 1..MaxTasks : communicate(d, i)
    \/ \E d \in DispatchIds : gather(d)
    \/ ToolRemoved

Spec == Init /\ [][Next]_vars

\* Concurrent dispatches against one Registry: every slot holds a request.
ConcRequests ==
    { [op |-> "power", target_name |-> "a", detail |-> ""],
      [op |-> "sensors", target_name |-> "a", detail |-> ""],
      [op |-> "sensor", target_name |-> "a", detail |-> "CPU1_Temp"],
      [op |-> "group", target_name |-> "a", detail |-> "solo"],
      [op |-> "fru", target_name |-> "b", detail |-> ""],
      [op |-> "sel", target_name |-> "zz", detail |-> "list"],
      [op |-> "chassis", target_name |-> "a", detail |-> "status"] }

ConcInit ==
    /\ Constructed(<<EntryA, EntryB>>)
    /\ ipmitool_path # None
    /\ stuck \in {{}} \cup {{<<d, i>> : i \in 0..MaxTasks} : d \in DispatchIds}
    /\ req \in [DispatchIds -> ConcRequests]
    /\ pc = [d \in DispatchIds |-> "new"]

\* The event loop runs every coroutine that is ready; a child process or a
\* library call that is not stuck ends.
HandlerStep(d) ==
    \/ ipmi_power(d) \/ ipmi_sensors(d) \/ ipmi_sensor(d) \/ ipmi_group(d)
    \/ ipmi_fru(d) \/ ipmi_sel(d) \/ ipmi_chassis(d)
    \/ run_pyghmi_command(d) \/ ipmi_sync_call(d) \/ handle_sensor_group(d)
    \/ gather(d)

Fairness ==
    /\ \A d \in DispatchIds : WF_vars(HandlerStep(d))
    /\ \A d \in DispatchIds, i \in 1..MaxTasks :
          WF_vars(run_ipmitool_cli_streaming(d, i)) /\ WF_vars(communicate(d, i))

FairSpec == ConcInit /\ [][Next]_vars /\ Fairness

----------------------------------------------------------------------------
(* Construction, entry by entry *)

EntryNonStr == [kind |-> "nonstr", obj |-> NoObject]
EntryNonObj == [kind |-> "nonobj", obj |-> NoObject]
\* A second definition named "a", without sensor groups.
EntryA2 == [kind |-> "obj", obj |-> Server(JStr("a"), JStr("10.0.0.9"), Absent)]
\* sensor_groups that is not an object.
EntryListGroups ==
    [kind |-> "obj", obj |-> Server(JStr("d"), JStr("10.0.0.4"), JList(<<JStr("FAN1")>>))]
\* A name that is a JSON list, with sensor groups.
EntryListName ==
    [kind |-> "obj",
     obj |-> Server(JList(<<JStr("e")>>), JStr("10.0.0.5"),
                    JObj([g \in {"fans"} |-> JList(<<JStr("FAN1")>>)]))]

LoadEntries ==
    Entries \cup {EntryNonStr, EntryNonObj, EntryA2, EntryListGroups, EntryListName}

\* Lines 20-28: __init__ before its loop over any configuration list.
LoadInit ==
    /\ config \in SeqsUpTo(LoadEntries, MaxServers)
    /\ ctor = [pos |-> 0, raised |-> FALSE]
    /\ servers = <<>>
    /\ sensor_groups = EmptyDict
    /\ \E system \in Systems, exists \in BOOLEAN, chmodOk \in BOOLEAN :
          /\ ipmitool_path = initialize_ipmitool(system, exists, chmodOk)
          /\ toolOnDisk = exists
    /\ stuck = {}
    /\ req = [d \in DispatchIds |-> NoRequest]
    /\ pc = [d \in DispatchIds |-> "unused"]
    /\ replies = [d \in DispatchIds |-> <<>>]
    /\ tasks = [d \in DispatchIds |-> <<>>]
    /\ doneOrder = [d \in DispatchIds |-> <<>>]
    /\ libcall = [d \in DispatchIds |-> "none"]
    /\ loopThread = 0

\* Lines 33-48: one pass of the loop.
load_entry ==
    /\ ~ctor.raised /\ ctor.pos < Len(config)
    /\ LET st == LoadEntry([servers |-> servers, sensor_groups |-> sensor_groups,
                            raised |-> FALSE], config[ctor.pos + 1])
       IN /\ servers' = st.servers
          /\ sensor_groups' = st.sensor_groups
          /\ ctor' = [pos |-> ctor.pos + 1, raised |-> st.raised]
    /\ UNCHANGED <<config, ipmitool_path, toolOnDisk, stuck, req, pc, replies, tasks,
                   doneOrder, libcall, loopThread>>

LoadSpec == LoadInit /\ [][load_entry]_vars

\* __init__ has gone through the whole list.
Loaded == ~ctor.raised /\ ctor.pos = Len(config)

----------------------------------------------------------------------------
(* Vocabulary of the properties *)

Ended(d) == pc[d] \in {"done", "raised"}

NameRegistered(t) == \E i \in DOMAIN servers : servers[i]["name"] = JStr(t)
RegisteredNames == {servers[i]["name"].v : i \in DOMAIN servers}

ProgressFormats ==
    {"progress_power", "progress_sensors", "progress_sensor", "progress_group",
     "progress_fru", "progress_sel", "progress_chassis"}
IsProgress(text) == text.fmt \in ProgressFormats

SubcommandOk(r) ==
    /\ r.op = "sel" => r.detail \in {"list", "LIST"}
    /\ r.op = "chassis" => r.detail \in {"status", "Status"}

\* The sensor list the group request r names, Absent if there is none.
SensorList(r) ==
    IF JStr(r.target_name) \in DOMAIN sensor_groups
       /\ r.detail \in DOMAIN sensor_groups[JStr(r.target_name)]
    THEN sensor_groups[JStr(r.target_name)][r.detail]
    ELSE Absent

GroupOk(r) == r.op = "group" => r.detail # "" /\ SensorList(r) # Absent

\* The handler lets r through to a runner or to the fan-out.
Accepted(r) == NameRegistered(r.target_name) /\ SubcommandOk(r) /\ GroupOk(r)

SpawnAttempts(d) == {i \in DOMAIN tasks[d] : tasks[d][i].attempted}

----------------------------------------------------------------------------
(* C1 *)

\* C1, as stated: a dispatch that has finished has emitted exactly one reply.
C1_ExactlyOneReply ==
    \A d \in DispatchIds : Ended(d) => Len(replies[d]) = 1

\* C1, amended: a dispatch never emits more than two replies.  A dispatch
\* whose handler has returned has emitted exactly one reply, a rejection,
\* if its target or arguments were rejected, and otherwise exactly two: a
\* progress reply followed by one result reply.  A dispatch whose handler
\* was left by a fault has emitted the progress reply alone.
C1_OneTerminalReply ==
    \A d \in DispatchIds :
        /\ Len(replies[d]) <= 2
        /\ pc[d] = "done" =>
              IF Accepted(req[d])
              THEN /\ Len(replies[d]) = 2
                   /\ IsProgress(replies[d][1]) /\ ~IsProgress(replies[d][2])
              ELSE Len(replies[d]) = 1 /\ ~IsProgress(replies[d][1])
        /\ pc[d] = "raised" => Len(replies[d]) = 1 /\ IsProgress(replies[d][1])

C1_Witness ==
    \E d \in DispatchIds :
        pc[d] = "done" /\ Len(replies[d]) = 2 /\ replies[d][2].fmt = "tool_failed"

----------------------------------------------------------------------------
(* C2 *)

\* C2, as stated: a finished dispatch on an unregistered target has replied
\* with a text that lists every registered server name, has spawned no
\* child process and has made no library call.
C2_ListsRegisteredNames ==
    \A d \in DispatchIds :
        (Ended(d) /\ ~NameRegistered(req[d].target_name)) =>
            /\ Len(replies[d]) = 1
            /\ RegisteredNames \subseteq SeqToSet(replies[d][1].args)
            /\ SpawnAttempts(d) = {} /\ libcall[d] = "none"

\* C2, amended: a dispatch on an unregistered target ends in its first
\* step with a single reply, which names the requested target and no
\* registered server (for sel and chassis with a subcommand other than
\* list / status: which quotes the subcommand); no runner is invoked, no
\* child process is spawned and no library call is made.
C2_UnknownTargetRejected ==
    \A d \in DispatchIds :
        (pc[d] \notin {"new", "unused"} /\ ~NameRegistered(req[d].target_name)) =>
            /\ pc[d] = "done"
            /\ Len(replies[d]) = 1
            /\ IF SubcommandOk(req[d])
               THEN /\ replies[d][1].fmt = "not_found"
                    /\ replies[d][1].args = <<req[d].target_name>>
               ELSE /\ replies[d][1].fmt \in {"sel_usage", "chassis_usage"}
                    /\ replies[d][1].args = <<req[d].detail>>
            /\ tasks[d] = <<>> /\ SpawnAttempts(d) = {} /\ libcall[d] = "none"

C2_Witness ==
    \E d \in DispatchIds :
        /\ pc[d] = "done" /\ ~NameRegistered(req[d].target_name)
        /\ RegisteredNames = {"a", "b"}
        /\ replies[d] = <<[fmt |-> "not_found", args |-> <<"zz">>, code |-> <<>>,
                           body |-> <<>>, blocks |-> <<>>]>>

----------------------------------------------------------------------------
(* C3 *)

\* C3, as stated: no fault ever leaves a handler.
C3_NoFaultPropagates ==
    \A d \in DispatchIds : pc[d] # "raised"

----------------------------------------------------------------------------
(* C4 *)

IsGroupResult(d) ==
    /\ req[d].op = "group" /\ pc[d] = "done"
    /\ replies[d][Len(replies[d])].fmt = "group_result"

\* C4: the joined text of a sensor group carries, after the group name, one
\* block per sensor of the group's list, and the i-th block is the result
\* of the invocation made for the i-th sensor (its command names that
\* sensor when a child process ran), in whatever order the invocations
\* completed.
C4_BlocksInListOrder ==
    \A d \in DispatchIds :
        IsGroupResult(d) =>
            LET reply == replies[d][Len(replies[d])]
                sensors == SensorList(req[d]).v
            IN /\ reply.args = <<req[d].detail>>
               /\ Len(reply.blocks) = Len(sensors)
               /\ \A i \in DOMAIN sensors :
                     /\ tasks[d][i].parts = <<JStr("sensor"), JStr("get"), sensors[i]>>
                     /\ reply.blocks[i] = tasks[d][i].result
                     /\ reply.blocks[i].fmt \in {"tool_success", "tool_failed"} =>
                           reply.blocks[i].args = <<"sensor get " \o sensors[i].v>>

\* The second sensor's invocation completed first.
C4_Witness ==
    \E d \in DispatchIds :
        /\ IsGroupResult(d) /\ req[d].detail = "temps"
        /\ doneOrder[d] = <<2, 1>>
        /\ replies[d][2].blocks[1].fmt = "tool_success"
        /\ replies[d][2].blocks[2].fmt = "tool_failed"

----------------------------------------------------------------------------
(* C5 *)

\* C5, as stated: a group request that resolves to a non-empty sensor list
\* never fails as a whole: once finished, its handler has returned a joined
\* text with one block for every sensor of the list.
C5_GroupNeverAborts ==
    \A d \in DispatchIds :
        (req[d].op = "group" /\ Accepted(req[d]) /\ Truthy(SensorList(req[d]))
         /\ Ended(d)) =>
            /\ pc[d] = "done"
            /\ replies[d][Len(replies[d])].fmt = "group_result"
            /\ SensorList(req[d]).t = "list"
            /\ Len(replies[d][Len(replies[d])].blocks) = Len(SensorList(req[d]).v)

----------------------------------------------------------------------------
(* C6 *)

RanToCompletion(task) == task.st = "returned" /\ task.exit.exc = ""

\* C6: for a child process that ran to completion the runner returns the
\* success text if and only if the exit status is 0.  The success text
\* carries the standard output (decoded, surrounding whitespace stripped)
\* and no exit code; the failure text carries the exit code and the
\* standard error (decoded and stripped likewise).  Exit 0 with output
\* " Do<invalid byte>ne\n" gives success with "Done"; exit 1 with error
\* output "bad creds\n" gives failure with code 1 and "bad creds".
C6_OutcomeByExitStatus ==
    \A d \in DispatchIds : \A i \in DOMAIN tasks[d] :
        LET task == tasks[d][i] IN
        RanToCompletion(task) =>
            /\ task.result.fmt \in {"tool_success", "tool_failed"}
            /\ task.result.fmt = "tool_success" <=> task.exit.returncode = 0
            /\ task.result.fmt = "tool_success" =>
                  /\ task.result.code = <<>>
                  /\ task.result.body = strip(decode(task.exit.stdout))
            /\ task.result.fmt = "tool_failed" =>
                  /\ task.result.code = <<task.exit.returncode>>
                  /\ task.result.body = strip(decode(task.exit.stderr))
            /\ task.exit.stdout = <<" ", "D", "o", InvalidByte, "n", "e", "\n">> =>
                  task.result.body = <<"D", "o", "n", "e">>
            /\ task.exit.returncode = 1 =>
                  /\ task.result.code = <<1>>
                  /\ task.result.body = <<"b", "a", "d", " ", "c", "r", "e", "d", "s">>

C6_Witness ==
    \E d \in DispatchIds : \E i \in DOMAIN tasks[d] :
        /\ RanToCompletion(tasks[d][i])
        /\ tasks[d][i].exit.returncode = 1
        /\ tasks[d][i].result.fmt = "tool_failed"

----------------------------------------------------------------------------
(* C7 *)

ToolMissingFormats == {"tool_unresolved", "tool_not_found"}

\* C7, as stated, for the invocations that return: a runner invocation that
\* ran while the executable was unresolved or not on disk returned a
\* tool-missing text and did not attempt to spawn.
C7_NoSpawnAttempt ==
    \A d \in DispatchIds : \A i \in DOMAIN tasks[d] :
        (tasks[d][i].st = "returned" /\ tasks[d][i].missing) =>
            /\ tasks[d][i].result.fmt \in ToolMissingFormats
            /\ ~tasks[d][i].attempted

\* C7, amended: a runner invocation that ran while the executable was
\* unresolved or not on disk created no child process.  If the executable
\* was never located at startup, it returned the tool-missing text without
\* attempting to spawn.  If it was located at startup and is gone from the
\* disk, the runner attempted the spawn and returned the other tool-missing
\* text, unless the fault of building the argument vector left it first, in
\* which case it attempted nothing and returned nothing.
C7_ToolMissing ==
    \A d \in DispatchIds : \A i \in DOMAIN tasks[d] :
        LET task == tasks[d][i] IN
        (task.st # "scheduled" /\ task.missing) =>
            /\ ~task.spawned
            /\ IF ipmitool_path = None
               THEN /\ task.st = "returned" /\ ~task.attempted
                    /\ task.result.fmt = "tool_unresolved"
               ELSE IF task.st = "raised"
               THEN ~task.attempted
               ELSE /\ task.st = "returned" /\ task.attempted
                    /\ task.result.fmt = "tool_not_found"

C7_Witness ==
    \E d \in DispatchIds : \E i \in DOMAIN tasks[d] :
        /\ ipmitool_path # None /\ ~toolOnDisk
        /\ tasks[d][i].missing /\ tasks[d][i].attempted
        /\ tasks[d][i].result.fmt = "tool_not_found"

----------------------------------------------------------------------------
(* C8 *)

\* C8, as stated: a sensor dispatch with an empty sensor name is rejected
\* with a single reply and never reaches the runner.
C8_EmptySensorRejected ==
    \A d \in DispatchIds :
        (req[d].op = "sensor" /\ req[d].detail = "" /\ pc[d] \notin {"new", "unused"}) =>
            /\ pc[d] = "done"
            /\ Len(replies[d]) = 1 /\ ~IsProgress(replies[d][1])
            /\ tasks[d] = <<>>

----------------------------------------------------------------------------
(* C9 *)

ArgTail(r) ==
    CASE r.op = "sensors" -> <<JStr("sensor"), JStr("list")>>
      [] r.op = "sensor" -> <<JStr("sensor"), JStr("get"), JStr(r.detail)>>
      [] r.op = "fru" -> <<JStr("fru")>>
      [] r.op = "sel" -> <<JStr("sel"), JStr("list")>>
      [] r.op = "chassis" -> <<JStr("chassis"), JStr("status")>>

\* C9: a power dispatch never invokes the external-tool runner and is the
\* only one to make a library call; sensors, sensor, fru, sel and chassis
\* invoke the runner at most once, with the argument tail of their
\* operation, and exactly once when the request was accepted and the
\* handler has gone past its progress reply; group invokes the runner only
\* through the fan-out, once per sensor of the list with [sensor, get, name].
C9_Routing ==
    \A d \in DispatchIds :
        /\ req[d].op = "power" =>
              /\ tasks[d] = <<>>
              /\ (Accepted(req[d]) /\ pc[d] \in {"await_lib", "done"}) <=> libcall[d] # "none"
        /\ req[d].op # "power" => libcall[d] = "none"
        /\ req[d].op \in {"sensors", "sensor", "fru", "sel", "chassis"} =>
              /\ Len(tasks[d]) = IF Accepted(req[d]) /\ pc[d] # "new" THEN 1 ELSE 0
              /\ \A i \in DOMAIN tasks[d] : tasks[d][i].parts = ArgTail(req[d])
        /\ req[d].op = "group" =>
              \A i \in DOMAIN tasks[d] :
                  /\ pc[d] \in {"await_gather", "done", "raised"}
                  /\ tasks[d][i].parts = <<JStr("sensor"), JStr("get"), SensorList(req[d]).v[i]>>

C9_Witness ==
    \E d \in DispatchIds :
        /\ req[d].op = "chassis" /\ pc[d] = "done"
        /\ Len(tasks[d]) = 1 /\ tasks[d][1].spawned
        /\ tasks[d][1].parts = <<JStr("chassis"), JStr("status")>>

----------------------------------------------------------------------------
(* C10 *)

Ready == {"new", "power_call", "group_call"}
Awaiting == {"await_lib", "await_runner", "await_gather"}

\* Every underlying call of dispatch d comes back: none of them is stuck and
\* no runner invocation of d is left by the fault of line 225.
CallsReturn(d) ==
    /\ \A i \in 0..MaxTasks : <<d, i>> \notin stuck
    /\ \A i \in DOMAIN tasks[d] :
          /\ tasks[d][i].st # "raised"
          /\ tasks[d][i].st = "scheduled" =>
                ~(ipmitool_path # None /\ JoinRaises(target_server(d), tasks[d][i].parts))

\* Dispatch d is not left waiting for the event loop, and if its underlying
\* calls all come back, its handler has returned and, the request having
\* been accepted, has delivered the result reply after the progress reply.
Settled(d) ==
    /\ pc[d] \notin Ready
    /\ CallsReturn(d) =>
          /\ pc[d] = "done"
          /\ Accepted(req[d]) => Len(replies[d]) = 2 /\ ~IsProgress(replies[d][2])

\* C10: whichever call is stuck, the event loop goes on running every
\* handler that is ready, and every dispatch whose underlying calls all
\* come back goes on to deliver its result reply: each dispatch ends up
\* settled, and only a dispatch with a call of its own that does not come
\* back stays short of its result.
C10_Independent == \A d \in DispatchIds : <>[]Settled(d)

\* One dispatch waits for a library call that never returns while another
\* has delivered the result of its own.
C10_Witness ==
    \E d \in DispatchIds, e \in DispatchIds :
        /\ d # e
        /\ <<d, 0>> \in stuck /\ pc[d] = "await_lib" /\ libcall[d] = "running"
        /\ req[e].op = "power" /\ pc[e] = "done" /\ libcall[e] = "returned"
        /\ Len(replies[e]) = 2

----------------------------------------------------------------------------
(* C11 *)

\* An entry the specification calls valid: a JSON string that decodes to an
\* object with name, host, username and password.
IsValid(e) == e.kind = "obj" /\ \A k \in RequiredKeys : e.obj[k] # Absent

RECURSIVE ValidRecords(_)
ValidRecords(cfg) ==
    IF cfg = <<>> THEN <<>>
    ELSE IF IsValid(Head(cfg)) THEN <<Head(cfg).obj>> \o ValidRecords(Tail(cfg))
    ELSE ValidRecords(Tail(cfg))

\* C11: for every configuration list construction never raises, and the
\* server list holds exactly the valid entries gone through so far, in their
\* original order (malformed entries are skipped).
C11_ConstructionNeverRaises ==
    /\ ~ctor.raised
    /\ servers = ValidRecords(SubSeq(config, 1, ctor.pos))

----------------------------------------------------------------------------
(* C12 *)

\* A group request to a registered server.
GroupRequest(d) == req[d].op = "group" /\ NameRegistered(req[d].target_name)

\* The group name is empty or not in the table kept under the target's name.
GroupAbsent(d) == req[d].detail = "" \/ SensorList(req[d]) = Absent

\* The group is in the table and its value is an empty list.
GroupEmpty(d) == ~GroupAbsent(d) /\ SensorList(req[d]) = JList(<<>>)

\* C12, as stated: a group request to a resolved server whose group is absent
\* or whose list is empty ends with a failure message that names the server
\* and the group, without an exception and without a child process.
C12_FailureNamesServerAndGroup ==
    \A d \in DispatchIds :
        GroupRequest(d) /\ (GroupAbsent(d) \/ GroupEmpty(d)) =>
            /\ pc[d] # "raised"
            /\ tasks[d] = <<>>
            /\ pc[d] = "done" =>
                  replies[d][Len(replies[d])] =
                      Text("group_not_found", <<req[d].target_name, req[d].detail>>)

\* C12, amended: such a request raises no exception and starts no runner; an
\* absent (or empty) group name gets one reply, the usage text listing the
\* groups of the table, and no progress reply; a group whose list is empty
\* gets the progress reply and then the failure text naming server and group.
C12_GroupRejected ==
    \A d \in DispatchIds :
        GroupRequest(d) /\ (GroupAbsent(d) \/ GroupEmpty(d)) =>
            /\ pc[d] # "raised"
            /\ tasks[d] = <<>>
            /\ pc[d] = "done" /\ GroupAbsent(d) =>
                  /\ Len(replies[d]) = 1
                  /\ replies[d][1].fmt = "group_usage"
                  /\ LET names == DOMAIN GroupsOf(JStr(req[d].target_name))
                     IN SeqToSet(replies[d][1].args) =
                            IF names = {} THEN {"none"} ELSE names
            /\ pc[d] = "done" /\ GroupEmpty(d) =>
                  /\ Len(replies[d]) = 2
                  /\ replies[d][1].fmt = "progress_group"
                  /\ replies[d][2] =
                         Text("group_not_found", <<req[d].target_name, req[d].detail>>)

C12_Witness ==
    \E d \in DispatchIds :
        /\ GroupRequest(d) /\ GroupEmpty(d) /\ pc[d] = "done"
        /\ replies[d][2].fmt = "group_not_found"

----------------------------------------------------------------------------
(* C13 *)

\* The sensor_groups value the record carries, as line 43 reads it.
CarriedGroups(record) ==
    IF record["sensor_groups"] # Absent /\ isinstance_dict(record["sensor_groups"])
    THEN record["sensor_groups"].v
    ELSE EmptyDict

\* C13: in every state of the Registry no two server records have the same
\* name, and the group table kept under a name is the one carried by the
\* record that the lookup by that name resolves to.
C13_NamesUnique ==
    /\ \A i, j \in DOMAIN servers : servers[i]["name"] = servers[j]["name"] => i = j
    /\ \A i \in DOMAIN servers :
          LET name == servers[i]["name"]
          IN Hashable(name) =>
                GroupsOf(name) = CarriedGroups(servers[SelectFirst(servers, name)])

----------------------------------------------------------------------------
(* C14 *)

\* A well-formed sensor_groups value: an object that maps each group name to
\* a list of strings.
WellFormedGroups(x) ==
    /\ isinstance_dict(x)
    /\ \A g \in DOMAIN x.v : x.v[g].t = "list" /\ AllStr(x.v[g].v)

\* C14: after loading, the group table of a server record is non-empty only
\* if the record carried a well-formed sensor_groups value; a record whose
\* sensor_groups is missing or not well-formed has an empty group table.
C14_OnlyWellFormedGroups ==
    Loaded =>
        \A i \in DOMAIN servers :
            ~WellFormedGroups(servers[i]["sensor_groups"]) =>
                GroupsOf(servers[i]["name"]) = EmptyDict

----------------------------------------------------------------------------
(* C15 *)

\* A sel or chassis dispatch with an unregistered target and a subcommand
\* that is not the expected one, whose handler has returned.
BothInvalid(d) ==
    /\ req[d].op \in {"sel", "chassis"}
    /\ ~NameRegistered(req[d].target_name)
    /\ ~SubcommandOk(req[d])
    /\ pc[d] = "done"

\* C15, as stated: validation goes target first, then arguments, so the
\* single reply of such a dispatch is the target-not-found reply.
C15_TargetCheckedFirst ==
    \A d \in DispatchIds : BothInvalid(d) => replies[d] = <<NotFound(req[d].target_name)>>

\* C15, amended: sel and chassis check the subcommand before the target, so
\* the single reply of such a dispatch is the subcommand-usage reply; with a
\* matching subcommand and an unregistered target it is target-not-found.
\* group checks the target before the group name.
C15_SubcommandCheckedFirst ==
    \A d \in DispatchIds :
        /\ BothInvalid(d) =>
              replies[d] = <<Text(IF req[d].op = "sel" THEN "sel_usage" ELSE "chassis_usage",
                                  <<req[d].detail>>)>>
        /\ /\ req[d].op \in {"sel", "chassis", "group"}
           /\ ~NameRegistered(req[d].target_name)
           /\ SubcommandOk(req[d])
           /\ pc[d] = "done"
           => replies[d] = <<NotFound(req[d].target_name)>>

C15_Witness ==
    \E d \in DispatchIds :
        /\ BothInvalid(d) /\ req[d].op = "sel"
        /\ Len(replies[d]) = 1 /\ replies[d][1].fmt = "sel_usage"

----------------------------------------------------------------------------
(* C16 *)

\* A group dispatch that got to the fan-out over a list of sensors.
FansOut(d) ==
    /\ req[d].op = "group" /\ Accepted(req[d])
    /\ SensorList(req[d]).t = "list" /\ Truthy(SensorList(req[d]))
    /\ pc[d] \notin {"new", "group_call"}

HasGroupReply(d) == \E k \in DOMAIN replies[d] : replies[d][k].fmt = "group_result"

\* C16: for a group of N sensors all N invocations exist before the fan-out
\* waits and before any of them runs; the group reply is there only when all
\* N have completed, never while one is still running; if one of them never
\* completes, the group reply is never produced.
C16_JoinAll ==
    \A d \in DispatchIds :
        FansOut(d) =>
            LET N == Len(SensorList(req[d]).v)
            IN /\ Len(tasks[d]) = N
               /\ HasGroupReply(d) => \A i \in 1..N : tasks[d][i].st = "returned"
               /\ (\E i \in 1..N : tasks[d][i].st = "running" /\ <<d, i>> \in stuck) =>
                      ~HasGroupReply(d) /\ pc[d] # "done"

C16_Witness ==
    \E d \in DispatchIds :
        /\ FansOut(d) /\ pc[d] = "await_gather" /\ Len(tasks[d]) = 2
        /\ tasks[d][1].st = "returned"
        /\ tasks[d][2].st = "running" /\ <<d, 2>> \in stuck
        /\ ~HasGroupReply(d)

----------------------------------------------------------------------------
(* C17 *)

RECURSIVE SumSpawns(_)
SumSpawns(ts) == IF ts = <<>> THEN 0 ELSE Head(ts).spawns + SumSpawns(Tail(ts))

\* The calls of dispatch d so far: child processes it tried to spawn and
\* library calls it started.
CallsMade(d) == SumSpawns(tasks[d]) + (IF libcall[d] = "none" THEN 0 ELSE 1)

\* The entries of the list a group dispatch fans out over, one runner
\* invocation each.
OnePerEntry(d) ==
    FansOut(d) =>
        /\ Len(tasks[d]) = Len(SensorList(req[d]).v)
        /\ \A i \in DOMAIN tasks[d] :
              tasks[d][i].parts = <<JStr("sensor"), JStr("get"), SensorList(req[d]).v[i]>>

\* C17: single attempt, no retry.  No invocation tries to spawn more than
\* once, whatever its outcome, and a library call that was started is never
\* started again; a dispatch other than group makes at most one spawn or
\* library call in all; a group dispatch over N identifiers makes exactly N
\* runner invocations, one per list entry, duplicates included.
C17_SingleAttempt ==
    /\ [](\A d \in DispatchIds :
            /\ \A i \in DOMAIN tasks[d] : tasks[d][i].spawns <= 1
            /\ req[d].op # "group" => Len(tasks[d]) <= 1 /\ CallsMade(d) <= 1
            /\ OnePerEntry(d))
    /\ [][\A d \in DispatchIds :
            /\ libcall[d] # "none" /\ libcall'[d] = "running" => libcall[d] = "running"
            /\ tasks[d] # <<>> => Len(tasks'[d]) = Len(tasks[d])]_vars

C17_Witness ==
    \E d \in DispatchIds :
        /\ req[d].detail = "twice" /\ FansOut(d) /\ pc[d] = "done"
        /\ Len(tasks[d]) = 2 /\ tasks[d][1].parts = tasks[d][2].parts
        /\ tasks[d][1].spawns = 1 /\ tasks[d][1].exit.returncode # 0
        /\ tasks[d][2].spawns = 1 /\ tasks[d][2].exit.exc # ""

----------------------------------------------------------------------------
(* C18 *)

\* The Registry: the configuration, the server list with the fields of each
\* record, the group tables and the resolved tool path.
Registry == <<config, servers, sensor_groups, ipmitool_path>>

\* C18: the Registry is read-only after construction: no step of any
\* dispatch, with any outcome and under any interleaving of concurrent
\* dispatches, changes the server list, a field of a record, a group table or
\* the tool path.
C18_RegistryReadOnly == [][Registry' = Registry]_vars

C18_Witness ==
    \E d \in DispatchIds, e \in DispatchIds :
        /\ d # e
        /\ req[d].op = "group" /\ pc[d] = "await_gather" /\ tasks[d][1].st = "running"
        /\ req[e].op = "power" /\ pc[e] = "done"
        /\ servers = LoadServers(config).servers
        /\ sensor_groups = LoadServers(config).sensor_groups

----------------------------------------------------------------------------
(* C19 *)

\* The request passes target resolution and the validation of its arguments:
\* what the handlers test, and the sensor name that sensor requires.
PassesValidation(r) == Accepted(r) /\ (r.op = "sensor" => r.detail # "")

\* A child process was spawned (or the spawn was tried), or the library call
\* was started.
CallStarted(d) == libcall[d] # "none" \/ \E i \in DOMAIN tasks[d] : tasks[d][i].attempted

\* Every underlying call of the dispatch is over.
CallsCompleted(d) ==
    libcall[d] # "running" /\ \A i \in DOMAIN tasks[d] : tasks[d][i].st = "returned"

\* C19: a dispatch that passes resolution and validation emits the progress
\* reply before any child process is spawned or library call started, and
\* its result reply only after the underlying call has completed; a dispatch
\* that fails resolution or validation emits its rejection reply and no
\* progress reply.
C19_ReplyOrdering ==
    \A d \in DispatchIds :
        pc[d] \notin {"unused", "new"} =>
            IF PassesValidation(req[d])
            THEN /\ Len(replies[d]) >= 1 /\ IsProgress(replies[d][1])
                 /\ Len(replies[d]) = 2 =>
                       ~IsProgress(replies[d][2]) /\ CallsCompleted(d)
            ELSE /\ ~CallStarted(d)
                 /\ pc[d] = "done" /\ Len(replies[d]) = 1 /\ ~IsProgress(replies[d][1])

====
